---- MODULE Spec2Model ----
(***************************************************************************)
(* A model of src/documents/tasks.py of paperless-ngx.                     *)
(*                                                                         *)
(* Spec        update_document_archive_file (relational store, Archive     *)
(*             Store, Search Index, parser), run by several workers at     *)
(*             once; SpecFair is Spec with workers that do not stop.       *)
(* SpecConsume the barcode page splitter of consume_file;                  *)
(*             SpecConsumeEmpty lets the splitter produce no sub-document. *)
(* SpecSanity  sanity_check.                                               *)
(* SpecTrain   train_classifier.                                           *)
(* SpecBulk    bulk_update_documents alone.                                *)
(* SpecIndex   one of index_optimize, index_reindex, bulk_update_documents *)
(*             beside one run of update_document_archive_file, contending  *)
(*             for the index writer session.                               *)
(***************************************************************************)
EXTENDS Integers, Sequences, FiniteSets, TLC

\* ------------------------------------------------------------------ bounds

\* Number of document records in the relational store.
NumDocs == 4
\* Number of runs of update_document_archive_file the task queue starts; they
\* may overlap in any way, on different workers.
MaxRuns == 2
\* Largest number of pages of a file handed to consume_file.
MaxPages == 5
\* Largest number of messages the sanity checker reports.
MaxMessages == 3

Docs == 1..NumDocs
Procs == 1..MaxRuns
\* A document id that no record has: Document.objects.get raises for it.
MissingDoc == NumDocs + 1
\* Every run leaves at most one new file in the archive directory.
MaxName == NumDocs + MaxRuns
Names == 1..MaxName

\* None, an unset field, an absent file.
None == 0

\* ------------------------------------------------- update_document_archive_file

VARIABLES
  db,          \* the relational store, committed: document id -> record
  fs,          \* the archive directory: archive filename -> content of the file
  thumbs,      \* the thumbnail directory: document id -> content of the thumbnail
  index,       \* the Search Index: document id -> indexed content
  rowLock,     \* document id -> the run whose atomic unit has written the row
  mediaLock,   \* the run that holds FileLock(settings.MEDIA_LOCK), or None
  ixWriter,    \* the run that holds the index writer session, or None
  pc,          \* run -> its position in update_document_archive_file
  docId,       \* run -> the document_id it was called with
  document,    \* run -> the in-memory Document instance loaded at line 231
  checksum,    \* run -> the local variable checksum
  txn,         \* run -> the update its atomic unit has issued and not yet committed
  failedIn,    \* run -> the step that raised in this run, or "none"
  raising,     \* run -> an exception is propagating and no handler has caught it
  cleanups,    \* run -> number of parser.cleanup() calls in this run
  logged,      \* run -> number of logger.exception calls of line 281 in this run
  outcome,     \* run -> "none", "returned" or "raised": how the task ended
  before,      \* run -> the stored record when the task started
  atUpdate,    \* run -> the stored record when the atomic unit issued its update
  nruns,       \* number of runs started so far
  solo,        \* run -> no other run was active at any time of this run
  lastRun,     \* the last complete undisturbed run: its document and end state
  retryOf,     \* run -> end state of the run it repeats, or <<>>
  idem,        \* end states of a run and of its immediate repetition
  committed,   \* run -> its atomic unit has committed
  indexed      \* run -> number of index entries the run has written

archiveVars == <<db, fs, thumbs, index, rowLock, mediaLock, ixWriter, pc, docId,
                 document, checksum, txn, failedIn, raising, cleanups, logged,
                 outcome, before, atUpdate, nruns, solo, lastRun, retryOf, idem,
                 committed, indexed>>

\* The state of a run of consume_file.
VARIABLES
  task,             \* the input of the run: the file at path and the settings
  cfPc,             \* position of the run in consume_file
  file_to_process,  \* "path", "converted" (the PDF made from a TIFF) or "unset"
  separators,       \* the list of page numbers with a separator barcode
  document_list,    \* the list of sub-documents, each a list of page numbers
  n,                \* the index of the loop of line 128
  saved,            \* the files written into the intake directory, in order
  pathExists,       \* the original file exists
  convertedExists,  \* the PDF converted from a TIFF exists
  notified,         \* "no", "sent", "OSError" or "Exception": the notification
  consumed,         \* the paths the Consumer was invoked on, in order
  failedAt,         \* the step of consume_file that raised, or "none"
  result            \* "none", the returned string, or "raised"

consumeVars == <<task, cfPc, file_to_process, separators, document_list, n, saved,
                 pathExists, convertedExists, notified, consumed, failedAt, result>>

\* The state of a run of sanity_check.
VARIABLES
  scPc,        \* position of the run in sanity_check
  messages,    \* the messages check_sanity returned: a list of levels
  scLogged,    \* the calls of log_messages so far: the list each one has logged
  scResult     \* "none", the returned string, or the name of the exception raised

sanityVars == <<scPc, messages, scLogged, scResult>>

\* The state of a run of train_classifier.
VARIABLES
  auto,        \* kind of entity -> an entity of it has the automatic matching algorithm
  modelFile,   \* the persisted classifier model: "absent", "old" or "new"
  tcPc,        \* position of the run in train_classifier
  classifier,  \* the local variable: "unset", "loaded" or "untrained"
  changed,     \* what classifier.train() returned: "unset", "yes" or "no"
  loads,       \* number of load_classifier() calls of the run
  trains,      \* number of classifier.train() calls of the run
  saves,       \* number of classifier.save() calls that completed in the run
  tcFailed,    \* the step that raised: "none", "train" or "save"
  tcLogged,    \* the last log line of the run: "none", "info", "debug" or "warning"
  tcOutcome    \* "none", "returned" or "raised": how the task ended

trainVars == <<auto, modelFile, tcPc, classifier, changed, loads, trains, saves,
               tcFailed, tcLogged, tcOutcome>>

\* The state of a run of one of the index tasks: index_optimize, index_reindex,
\* bulk_update_documents.
VARIABLES
  itKind,        \* the task: "none", "optimize", "reindex" or "bulk"
  itPc,          \* position of the run in the task
  document_ids,  \* the argument of bulk_update_documents
  documents,     \* the instances of the evaluated queryset, in order
  itN,           \* number of turns of the current loop that are done
  buffer,        \* the writes buffered in the writer: document id -> content
  events,        \* what the run has done to the documents and the writer, in order
  itFailed,      \* the step that raised: "none", "post_save" or "write"
  itOutcome      \* "none", "returned" or "raised": how the task ended

indexTaskVars == <<itKind, itPc, document_ids, documents, itN, buffer, events,
                   itFailed, itOutcome>>

\* What an action of one task leaves alone: the variables of the other tasks.
besideArchive == <<consumeVars, sanityVars, trainVars, indexTaskVars>>
besideConsume == <<archiveVars, sanityVars, trainVars, indexTaskVars>>
besideSanity == <<archiveVars, consumeVars, trainVars, indexTaskVars>>
besideTrain == <<archiveVars, consumeVars, sanityVars, indexTaskVars>>
besideIndexTask == <<consumeVars, sanityVars, trainVars>>

\* MIME types: one whose parser produces an archive artifact, one whose parser
\* produces text and a thumbnail only, one with no registered parser.
MimePdf == "application/pdf"
MimeText == "text/plain"
MimeUnknown == "application/octet-stream"

\* documents.parsers.get_parser_class_for_mime_type: the parser class, or None.
get_parser_class_for_mime_type(mime_type) ==
  CASE mime_type = MimePdf -> "PdfParser"
    [] mime_type = MimeText -> "TextParser"
    [] OTHER -> "NoParser"

\* parser.get_text(): the text of document d. Version 0 is what an earlier parse
\* of the source produced, version 1 what the parser produces now (the source
\* file is unchanged and the parser deterministic).
get_text(d, v) == 2 * d + v
\* The bytes of the archive artifact of document d.
Artifact(d, v) == 2 * d + v
\* The bytes of the thumbnail of document d.
Thumbnail(d, v) == 2 * d + v
\* parser.get_archive_path(): the temp file of the artifact, None for a parser
\* that produces none.
get_archive_path(parser_class, d) ==
  IF parser_class = "PdfParser" THEN Artifact(d, 1) ELSE None

\* hashlib.md5(bytes).hexdigest(), injective on the contents of the model and
\* never the unset value.
md5(bytes) == ((bytes * 37) + 11) % 101

\* documents.file_handling.generate_unique_filename(doc, archive_filename=True):
\* the first candidate name that is the document's present archive filename or
\* that no file of the archive directory has.
RECURSIVE unique_from(_, _, _)
unique_from(counter, old_filename, files) ==
  IF counter >= MaxName THEN MaxName
  ELSE IF counter = old_filename \/ files[counter] = None THEN counter
  ELSE unique_from(counter + 1, old_filename, files)

generate_unique_filename(doc, files) == unique_from(1, doc.archive_filename, files)

\* Document.archive_path: the file named by archive_filename, None when unset.
archive_path(doc) == doc.archive_filename

\* index.update_document(writer, doc): the index entry is the projection of the
\* Document instance it is given.
update_document(doc) == doc.content

\* A stored record and the files that go with it, as the Consumer leaves them.
Record(mime, content, cks, name) ==
  [mime_type |-> mime, content |-> content, archive_checksum |-> cks,
   archive_filename |-> name]

NoTxn == [active |-> FALSE, archive_checksum |-> None, content |-> None,
          archive_filename |-> None]

\* What a retry is compared on: the record's fields, the archive and thumbnail
\* files, the index entry.
StateOf(d) == <<db[d].archive_checksum, db[d].content, db[d].archive_filename,
                fs, thumbs[d], index[d]>>

\* The kinds of document the store holds initially: archived by an earlier parse
\* (version 0), never archived, of a type without parser, of a type whose parser
\* makes no archive; document d is of kind KindOf(d), any further document of a
\* type without parser.
InitKinds == <<"pdf_archived_old", "pdf_unarchived", "unknown", "text">>

KindOf(d) == IF d <= Len(InitKinds) THEN InitKinds[d] ELSE "unknown"

InitRecord(d, kind) ==
  CASE kind = "pdf_unarchived" -> Record(MimePdf, get_text(d, 0), None, None)
    [] kind = "pdf_archived_old" ->
         Record(MimePdf, get_text(d, 0), md5(Artifact(d, 0)), d)
    [] kind = "pdf_archived" ->
         Record(MimePdf, get_text(d, 1), md5(Artifact(d, 1)), d)
    [] kind = "text" -> Record(MimeText, get_text(d, 0), None, None)
    [] OTHER -> Record(MimeUnknown, get_text(d, 0), None, None)

InitFile(name) ==
  IF name \in Docs /\ KindOf(name) = "pdf_archived_old" THEN Artifact(name, 0)
  ELSE IF name \in Docs /\ KindOf(name) = "pdf_archived" THEN Artifact(name, 1)
  ELSE None

InitArchive ==
    /\ db = [d \in Docs |-> InitRecord(d, KindOf(d))]
    /\ fs = [name \in Names |-> InitFile(name)]
    /\ thumbs = [d \in Docs |->
                   Thumbnail(d, IF KindOf(d) = "pdf_archived" THEN 1 ELSE 0)]
    /\ index = [d \in Docs |-> db[d].content]
    /\ rowLock = [d \in Docs |-> None]
    /\ mediaLock = None
    /\ ixWriter = None
    /\ pc = [p \in Procs |-> "idle"]
    /\ docId = [p \in Procs |-> None]
    /\ document = [p \in Procs |-> Record(MimeUnknown, None, None, None)]
    /\ checksum = [p \in Procs |-> None]
    /\ txn = [p \in Procs |-> NoTxn]
    /\ failedIn = [p \in Procs |-> "none"]
    /\ raising = [p \in Procs |-> FALSE]
    /\ cleanups = [p \in Procs |-> 0]
    /\ logged = [p \in Procs |-> 0]
    /\ outcome = [p \in Procs |-> "none"]
    /\ before = [p \in Procs |-> Record(MimeUnknown, None, None, None)]
    /\ atUpdate = [p \in Procs |-> Record(MimeUnknown, None, None, None)]
    /\ nruns = 0
    /\ solo = [p \in Procs |-> FALSE]
    /\ lastRun = [doc |-> None, snap |-> <<>>, valid |-> FALSE]
    /\ retryOf = [p \in Procs |-> <<>>]
    /\ idem = [first |-> <<>>, second |-> <<>>]
    /\ committed = [p \in Procs |-> FALSE]
    /\ indexed = [p \in Procs |-> 0]

\* ------------------------------------------------------------ history of runs

Quiet(p) == \A q \in Procs \ {p} : pc[q] \in {"idle", "done"}

NoRun == [doc |-> None, snap |-> <<>>, valid |-> FALSE]

\* A run starts: it is undisturbed when no other run is active, and it repeats
\* the last run when that one was undisturbed, complete and for the same document.
BeginRun(p, d) ==
  /\ solo' = [q \in Procs |-> IF q = p THEN Quiet(p) ELSE FALSE]
  /\ retryOf' = [retryOf EXCEPT ![p] =
                   IF Quiet(p) /\ lastRun.valid /\ lastRun.doc = d
                   THEN lastRun.snap ELSE <<>>]
  /\ lastRun' = NoRun

\* A run ends; clean: no step of it raised.
EndRun(p, clean) ==
  /\ lastRun' = IF clean /\ solo[p]
                THEN [doc |-> docId[p], snap |-> StateOf(docId[p]), valid |-> TRUE]
                ELSE NoRun
  /\ idem' = IF clean /\ solo[p] /\ retryOf[p] # <<>>
             THEN [first |-> retryOf[p], second |-> StateOf(docId[p])]
             ELSE idem
  /\ UNCHANGED <<solo, retryOf>>

stores == <<db, fs, thumbs, index>>
locks == <<rowLock, mediaLock, ixWriter>>
history == <<solo, lastRun, retryOf, idem>>

\* ------------------------------------------------------------------ the task

\* The step `step` of run p raises: the exception is remembered and control goes
\* to `target`.
Raise(p, step, target) ==
  /\ failedIn' = [failedIn EXCEPT ![p] = step]
  /\ raising' = [raising EXCEPT ![p] = TRUE]
  /\ pc' = [pc EXCEPT ![p] = target]

\* Line 231: the task queue starts run p with document_id d (runs are numbered in
\* the order they start); the record is loaded.
Start(p, d) ==
  /\ pc[p] = "idle"
  /\ p = nruns + 1
  /\ nruns' = nruns + 1
  /\ docId' = [docId EXCEPT ![p] = d]
  /\ checksum' = [checksum EXCEPT ![p] = None]
  /\ cleanups' = [cleanups EXCEPT ![p] = 0]
  /\ logged' = [logged EXCEPT ![p] = 0]
  /\ atUpdate' = [atUpdate EXCEPT ![p] = Record(MimeUnknown, None, None, None)]
  /\ committed' = [committed EXCEPT ![p] = FALSE]
  /\ indexed' = [indexed EXCEPT ![p] = 0]
  /\ BeginRun(p, d)
  /\ IF d \in Docs
     THEN /\ document' = [document EXCEPT ![p] = db[d]]
          /\ before' = [before EXCEPT ![p] = db[d]]
          /\ failedIn' = [failedIn EXCEPT ![p] = "none"]
          /\ raising' = [raising EXCEPT ![p] = FALSE]
          /\ outcome' = [outcome EXCEPT ![p] = "none"]
          /\ pc' = [pc EXCEPT ![p] = "resolve"]
     ELSE \* Document.DoesNotExist, outside the try block
          /\ document' = [document EXCEPT ![p] = Record(MimeUnknown, None, None, None)]
          /\ before' = [before EXCEPT ![p] = Record(MimeUnknown, None, None, None)]
          /\ failedIn' = [failedIn EXCEPT ![p] = "get"]
          /\ raising' = [raising EXCEPT ![p] = TRUE]
          /\ outcome' = [outcome EXCEPT ![p] = "raised"]
          /\ pc' = [pc EXCEPT ![p] = "done"]
  /\ UNCHANGED besideArchive
  /\ UNCHANGED <<stores, locks, txn, idem>>

\* Resolve without the early return of lines 237-242.
Resolve_NoEarlyReturn(p) ==
  /\ pc[p] = "resolve"
  /\ pc' = [pc EXCEPT ![p] = "parse"]
  /\ UNCHANGED besideArchive
  /\ UNCHANGED <<committed, indexed>>
  /\ UNCHANGED <<stores, locks, docId, document, checksum, txn, failedIn, raising,
                 cleanups, logged, outcome, before, atUpdate, nruns, history>>

\* Lines 233-244: resolve the parser; without one, log an error and return.
Resolve(p) ==
  /\ pc[p] = "resolve"
  /\ IF get_parser_class_for_mime_type(document[p].mime_type) = "NoParser"
     THEN /\ pc' = [pc EXCEPT ![p] = "done"]
          /\ outcome' = [outcome EXCEPT ![p] = "returned"]
          /\ EndRun(p, TRUE)
     ELSE /\ pc' = [pc EXCEPT ![p] = "parse"]
          /\ UNCHANGED <<outcome, history>>
  /\ UNCHANGED besideArchive
  /\ UNCHANGED <<committed, indexed>>
  /\ UNCHANGED <<stores, locks, docId, document, checksum, txn, failedIn, raising,
                 cleanups, logged, before, atUpdate, nruns>>

\* Line 247: parser.parse(...), which may raise.
Parse(p) ==
  /\ pc[p] = "parse"
  /\ \/ /\ pc' = [pc EXCEPT ![p] = "thumbnail"]
        /\ UNCHANGED <<failedIn, raising>>
     \/ Raise(p, "parse", "except")
  /\ UNCHANGED besideArchive
  /\ UNCHANGED <<committed, indexed>>
  /\ UNCHANGED <<stores, locks, docId, document, checksum, txn, cleanups, logged,
                 outcome, before, atUpdate, nruns, history>>

\* Lines 249-255: parser.get_thumbnail(...), which may raise; then the test of
\* parser.get_archive_path().
GetThumbnail(p) ==
  /\ pc[p] = "thumbnail"
  /\ \/ /\ pc' = [pc EXCEPT ![p] =
                   IF get_archive_path(get_parser_class_for_mime_type(
                                         document[p].mime_type), docId[p]) # None
                   THEN "atomic" ELSE "finally"]
        /\ UNCHANGED <<failedIn, raising>>
     \/ Raise(p, "thumbnail", "except")
  /\ UNCHANGED besideArchive
  /\ UNCHANGED <<committed, indexed>>
  /\ UNCHANGED <<stores, locks, docId, document, checksum, txn, cleanups, logged,
                 outcome, before, atUpdate, nruns, history>>

\* Lines 256-266: enter the atomic unit, hash the artifact, choose the filename
\* (on the in-memory instance; the archive directory is read for existing names).
Checksum(p) ==
  /\ pc[p] = "atomic"
  /\ \/ /\ checksum' = [checksum EXCEPT ![p] =
                         md5(get_archive_path(get_parser_class_for_mime_type(
                                                document[p].mime_type), docId[p]))]
        /\ document' = [document EXCEPT ![p].archive_filename =
                         generate_unique_filename(document[p], fs)]
        /\ pc' = [pc EXCEPT ![p] = "update"]
        /\ UNCHANGED <<failedIn, raising>>
     \/ /\ Raise(p, "checksum", "end_atomic")
        /\ UNCHANGED <<checksum, document>>
  /\ UNCHANGED besideArchive
  /\ UNCHANGED <<committed, indexed>>
  /\ UNCHANGED <<stores, locks, docId, txn, cleanups, logged, outcome, before,
                 atUpdate, nruns, history>>

\* Lines 267-271: Document.objects.filter(pk=...).update(...) inside the atomic
\* unit: it waits for the row, writes it uncommitted and keeps it locked.
Update(p) ==
  /\ pc[p] = "update"
  /\ rowLock[docId[p]] = None
  /\ \/ /\ rowLock' = [rowLock EXCEPT ![docId[p]] = p]
        /\ txn' = [txn EXCEPT ![p] =
                    [active |-> TRUE,
                     archive_checksum |-> checksum[p],
                     content |-> get_text(docId[p], 1),
                     archive_filename |-> document[p].archive_filename]]
        /\ atUpdate' = [atUpdate EXCEPT ![p] = db[docId[p]]]
        /\ pc' = [pc EXCEPT ![p] = "lock"]
        /\ UNCHANGED <<failedIn, raising>>
     \/ /\ Raise(p, "update", "end_atomic")
        /\ UNCHANGED <<rowLock, txn, atUpdate>>
  /\ UNCHANGED besideArchive
  /\ UNCHANGED <<committed, indexed>>
  /\ UNCHANGED <<stores, mediaLock, ixWriter, docId, document, checksum, cleanups,
                 logged, outcome, before, nruns, history>>

\* Lock that does not wait for the holder of the lock.
Lock_NoWait(p) ==
  /\ pc[p] = "lock"
  /\ mediaLock' = p
  /\ pc' = [pc EXCEPT ![p] = "mkdir"]
  /\ UNCHANGED besideArchive
  /\ UNCHANGED <<committed, indexed>>
  /\ UNCHANGED <<stores, rowLock, ixWriter, docId, document, checksum, txn,
                 failedIn, raising, cleanups, logged, outcome, before, atUpdate,
                 nruns, history>>

\* Line 272: with FileLock(settings.MEDIA_LOCK): wait for the lock and take it.
Lock(p) ==
  /\ pc[p] = "lock"
  /\ mediaLock = None
  /\ mediaLock' = p
  /\ pc' = [pc EXCEPT ![p] = "mkdir"]
  /\ UNCHANGED besideArchive
  /\ UNCHANGED <<committed, indexed>>
  /\ UNCHANGED <<stores, rowLock, ixWriter, docId, document, checksum, txn,
                 failedIn, raising, cleanups, logged, outcome, before, atUpdate,
                 nruns, history>>

\* Line 273: create_source_path_directory(document.archive_path), which may raise.
Mkdir(p) ==
  /\ pc[p] = "mkdir"
  /\ \/ /\ pc' = [pc EXCEPT ![p] = "move_archive"]
        /\ UNCHANGED <<failedIn, raising>>
     \/ Raise(p, "mkdir", "unlock")
  /\ UNCHANGED besideArchive
  /\ UNCHANGED <<committed, indexed>>
  /\ UNCHANGED <<stores, locks, docId, document, checksum, txn, cleanups, logged,
                 outcome, before, atUpdate, nruns, history>>

\* Line 274: shutil.move(parser.get_archive_path(), document.archive_path): the
\* artifact replaces whatever file has that name; it may raise.
MoveArchive(p) ==
  /\ pc[p] = "move_archive"
  /\ \/ /\ fs' = [fs EXCEPT ![archive_path(document[p])] =
                   get_archive_path(get_parser_class_for_mime_type(
                                      document[p].mime_type), docId[p])]
        /\ pc' = [pc EXCEPT ![p] = "move_thumb"]
        /\ UNCHANGED <<failedIn, raising>>
     \/ /\ Raise(p, "move_archive", "unlock")
        /\ UNCHANGED fs
  /\ UNCHANGED besideArchive
  /\ UNCHANGED <<committed, indexed>>
  /\ UNCHANGED <<db, thumbs, index, locks, docId, document, checksum, txn, cleanups,
                 logged, outcome, before, atUpdate, nruns, history>>

\* Line 275: shutil.move(thumbnail, document.thumbnail_path), which may raise.
MoveThumb(p) ==
  /\ pc[p] = "move_thumb"
  /\ \/ /\ thumbs' = [thumbs EXCEPT ![docId[p]] = Thumbnail(docId[p], 1)]
        /\ pc' = [pc EXCEPT ![p] = "unlock"]
        /\ UNCHANGED <<failedIn, raising>>
     \/ /\ Raise(p, "move_thumb", "unlock")
        /\ UNCHANGED thumbs
  /\ UNCHANGED besideArchive
  /\ UNCHANGED <<committed, indexed>>
  /\ UNCHANGED <<db, fs, index, locks, docId, document, checksum, txn, cleanups,
                 logged, outcome, before, atUpdate, nruns, history>>

\* Unlock that releases the lock only when the moves succeeded, as an explicit
\* release at the end of the block would.
Unlock_OnSuccessOnly(p) ==
  /\ pc[p] = "unlock"
  /\ mediaLock' = IF raising[p] THEN mediaLock ELSE None
  /\ pc' = [pc EXCEPT ![p] = "end_atomic"]
  /\ UNCHANGED besideArchive
  /\ UNCHANGED <<committed, indexed>>
  /\ UNCHANGED <<stores, rowLock, ixWriter, docId, document, checksum, txn,
                 failedIn, raising, cleanups, logged, outcome, before, atUpdate,
                 nruns, history>>

\* Line 272, leaving the with block on either path: the FileLock is released.
Unlock(p) ==
  /\ pc[p] = "unlock"
  /\ mediaLock' = None
  /\ pc' = [pc EXCEPT ![p] = "end_atomic"]
  /\ UNCHANGED besideArchive
  /\ UNCHANGED <<committed, indexed>>
  /\ UNCHANGED <<stores, rowLock, ixWriter, docId, document, checksum, txn,
                 failedIn, raising, cleanups, logged, outcome, before, atUpdate,
                 nruns, history>>

\* EndAtomic that commits the update also when an exception passes through, as
\* if the moves were not inside the atomic unit.
EndAtomic_AlwaysCommits(p) ==
  /\ pc[p] = "end_atomic"
  /\ db' = IF txn[p].active
           THEN [db EXCEPT ![docId[p]] =
                   [@ EXCEPT !.archive_checksum = txn[p].archive_checksum,
                             !.content = txn[p].content,
                             !.archive_filename = txn[p].archive_filename]]
           ELSE db
  /\ committed' = [committed EXCEPT ![p] = txn[p].active]
  /\ UNCHANGED indexed
  /\ pc' = [pc EXCEPT ![p] = IF raising[p] THEN "except" ELSE "index_open"]
  /\ rowLock' = [d \in Docs |-> IF rowLock[d] = p THEN None ELSE rowLock[d]]
  /\ txn' = [txn EXCEPT ![p] = NoTxn]
  /\ UNCHANGED besideArchive
  /\ UNCHANGED <<fs, thumbs, index, mediaLock, ixWriter, docId, document, checksum,
                 failedIn, raising, cleanups, logged, outcome, before, atUpdate,
                 nruns, history>>

\* EndAtomic after which the index step follows in every case, as if lines
\* 277-278 were outside the try block: the rollback is followed by an index write.
EndAtomic_ThenIndex(p) ==
  /\ pc[p] = "end_atomic"
  /\ IF ~raising[p]
     THEN /\ db' = [db EXCEPT ![docId[p]] =
                     [@ EXCEPT !.archive_checksum = txn[p].archive_checksum,
                               !.content = txn[p].content,
                               !.archive_filename = txn[p].archive_filename]]
          /\ committed' = [committed EXCEPT ![p] = TRUE]
     ELSE UNCHANGED <<db, committed>>
  /\ pc' = [pc EXCEPT ![p] = "index_open"]
  /\ UNCHANGED indexed
  /\ rowLock' = [d \in Docs |-> IF rowLock[d] = p THEN None ELSE rowLock[d]]
  /\ txn' = [txn EXCEPT ![p] = NoTxn]
  /\ UNCHANGED besideArchive
  /\ UNCHANGED <<fs, thumbs, index, mediaLock, ixWriter, docId, document, checksum,
                 failedIn, raising, cleanups, logged, outcome, before, atUpdate,
                 nruns, history>>

\* Line 256, leaving transaction.atomic(): commit when the block ended normally,
\* roll back when an exception passes through it; the row is unlocked.
EndAtomic(p) ==
  /\ pc[p] = "end_atomic"
  /\ IF ~raising[p]
     THEN /\ db' = [db EXCEPT ![docId[p]] =
                     [@ EXCEPT !.archive_checksum = txn[p].archive_checksum,
                               !.content = txn[p].content,
                               !.archive_filename = txn[p].archive_filename]]
          /\ committed' = [committed EXCEPT ![p] = TRUE]
          /\ pc' = [pc EXCEPT ![p] = "index_open"]
     ELSE /\ UNCHANGED <<db, committed>>
          /\ pc' = [pc EXCEPT ![p] = "except"]
  /\ UNCHANGED indexed
  /\ rowLock' = [d \in Docs |-> IF rowLock[d] = p THEN None ELSE rowLock[d]]
  /\ txn' = [txn EXCEPT ![p] = NoTxn]
  /\ UNCHANGED besideArchive
  /\ UNCHANGED <<fs, thumbs, index, mediaLock, ixWriter, docId, document, checksum,
                 failedIn, raising, cleanups, logged, outcome, before, atUpdate,
                 nruns, history>>

\* Line 277: with index.open_index_writer() as writer: the exclusive writer
\* session is acquired.
IndexOpen(p) ==
  /\ pc[p] = "index_open"
  /\ ixWriter = None
  /\ ixWriter' = p
  /\ pc' = [pc EXCEPT ![p] = "index_update"]
  /\ UNCHANGED besideArchive
  /\ UNCHANGED <<committed, indexed>>
  /\ UNCHANGED <<stores, rowLock, mediaLock, docId, document, checksum, txn,
                 failedIn, raising, cleanups, logged, outcome, before, atUpdate,
                 nruns, history>>

\* Lines 277-278: index.update_document(writer, document) with the in-memory
\* instance, then the writer session is released (committed, or cancelled when
\* the body raised).
IndexUpdate(p) ==
  /\ pc[p] = "index_update"
  /\ \/ /\ index' = [index EXCEPT ![docId[p]] = update_document(document[p])]
        /\ indexed' = [indexed EXCEPT ![p] = @ + 1]
        /\ pc' = [pc EXCEPT ![p] = "finally"]
        /\ UNCHANGED <<failedIn, raising>>
     \/ /\ Raise(p, "index", "except")
        /\ UNCHANGED <<index, indexed>>
  /\ UNCHANGED committed
  /\ ixWriter' = None
  /\ UNCHANGED besideArchive
  /\ UNCHANGED <<db, fs, thumbs, rowLock, mediaLock, docId, document, checksum, txn,
                 cleanups, logged, outcome, before, atUpdate, nruns, history>>

\* Except that logs and re-raises: after the finally clause the exception goes
\* on to the task queue.
Except_Reraises(p) ==
  /\ pc[p] = "except"
  /\ logged' = [logged EXCEPT ![p] = @ + 1]
  /\ cleanups' = [cleanups EXCEPT ![p] = @ + 1]
  /\ outcome' = [outcome EXCEPT ![p] = "raised"]
  /\ pc' = [pc EXCEPT ![p] = "done"]
  /\ EndRun(p, failedIn[p] = "none")
  /\ UNCHANGED besideArchive
  /\ UNCHANGED <<committed, indexed>>
  /\ UNCHANGED <<stores, locks, docId, document, checksum, txn, failedIn, raising,
                 before, atUpdate, nruns>>

\* Except that returns from the handler, with the cleanup not in a finally clause.
Except_Returns(p) ==
  /\ pc[p] = "except"
  /\ raising' = [raising EXCEPT ![p] = FALSE]
  /\ logged' = [logged EXCEPT ![p] = @ + 1]
  /\ outcome' = [outcome EXCEPT ![p] = "returned"]
  /\ pc' = [pc EXCEPT ![p] = "done"]
  /\ UNCHANGED besideArchive
  /\ UNCHANGED <<committed, indexed>>
  /\ UNCHANGED <<stores, locks, docId, document, checksum, txn, failedIn, cleanups,
                 before, atUpdate, nruns, history>>

\* Lines 280-285: except Exception: the exception is caught, logger.exception(...)
\* is called, nothing is re-raised; the finally clause follows: parser.cleanup(),
\* and the task returns.
Except(p) ==
  /\ pc[p] = "except"
  /\ raising' = [raising EXCEPT ![p] = FALSE]
  /\ logged' = [logged EXCEPT ![p] = @ + 1]
  /\ cleanups' = [cleanups EXCEPT ![p] = @ + 1]
  /\ outcome' = [outcome EXCEPT ![p] = "returned"]
  /\ pc' = [pc EXCEPT ![p] = "done"]
  /\ EndRun(p, failedIn[p] = "none")
  /\ UNCHANGED besideArchive
  /\ UNCHANGED <<committed, indexed>>
  /\ UNCHANGED <<stores, locks, docId, document, checksum, txn, failedIn, before,
                 atUpdate, nruns>>

\* Lines 284-285 when the try block ended without an exception: finally:
\* parser.cleanup(); then the task returns (an exception that no handler
\* caught would go on to the task queue).
Finally(p) ==
  /\ pc[p] = "finally"
  /\ cleanups' = [cleanups EXCEPT ![p] = @ + 1]
  /\ outcome' = [outcome EXCEPT ![p] = IF raising[p] THEN "raised" ELSE "returned"]
  /\ pc' = [pc EXCEPT ![p] = "done"]
  /\ EndRun(p, failedIn[p] = "none")
  /\ UNCHANGED besideArchive
  /\ UNCHANGED <<committed, indexed>>
  /\ UNCHANGED <<stores, locks, docId, document, checksum, txn, failedIn, raising,
                 logged, before, atUpdate, nruns>>

\* ------------------------------------------------------------- consume_file

MimeTiff == "image/tiff"

\* barcodes.supported_file_type(mime_type)
supported_file_type(mime) == mime \in {MimePdf, MimeTiff}

\* The pages a, a+1, ..., b-1 of a file, as a list.
PageRange(a, b) == [i \in 1..(IF b > a THEN b - a ELSE 0) |-> a + i - 1]

\* The elements of a set of page numbers in ascending order.
RECURSIVE Ascending(_)
Ascending(S) ==
  IF S = {} THEN <<>>
  ELSE LET m == CHOOSE x \in S : \A y \in S : x <= y
       IN <<m>> \o Ascending(S \ {m})

\* barcodes.scan_file_for_separating_barcodes(file): the page numbers, counted
\* from 0, of the pages that carry a separator barcode, in page order.
scan_file_for_separating_barcodes(file) == Ascending(file.barcodes)

\* barcodes.separate_pages(file, pages_to_split_on): the pages before the first
\* separator, then for each separator the pages after it up to the next
\* separator or the end of the file; separator pages are in none of them.
separate_pages(file, pages_to_split_on) ==
  IF pages_to_split_on = <<>> THEN <<>>
  ELSE <<PageRange(0, pages_to_split_on[1])>> \o
       [count \in 1..Len(pages_to_split_on) |->
          PageRange(pages_to_split_on[count] + 1,
                    IF count < Len(pages_to_split_on)
                    THEN pages_to_split_on[count + 1]
                    ELSE file.pages)]

\* Lines 131-134: the name a sub-document is saved under: its number before the
\* override filename, or None (save_to_dir then keeps the name separate_pages
\* gave the sub-document, which ends in its number).
newname(number, override_filename) ==
  IF override_filename # "None"
  THEN [number |-> number, base |-> override_filename]
  ELSE [number |-> number, base |-> "document"]

Tasks ==
  [pages : 1..MaxPages,
   barcodes : SUBSET (0..(MaxPages - 1)),
   mime_type : {MimePdf, MimeTiff, MimeUnknown},
   CONSUMER_ENABLE_BARCODES : BOOLEAN,
   override_filename : {"None", "scan.pdf"}]

InitConsume ==
  /\ task \in {t \in Tasks : t.barcodes \subseteq 0..(t.pages - 1)}
  /\ cfPc = "start"
  /\ file_to_process = "unset"
  /\ separators = <<>>
  /\ document_list = <<>>
  /\ n = 0
  /\ saved = <<>>
  /\ pathExists = TRUE
  /\ convertedExists = FALSE
  /\ notified = "no"
  /\ consumed = <<>>
  /\ failedAt = "none"
  /\ result = "none"

\* No consume_file task is running.
NoConsume ==
  /\ task = [pages |-> 1, barcodes |-> {}, mime_type |-> MimeUnknown,
             CONSUMER_ENABLE_BARCODES |-> FALSE, override_filename |-> "None"]
  /\ cfPc = "done"
  /\ file_to_process = "unset"
  /\ separators = <<>>
  /\ document_list = <<>>
  /\ n = 0
  /\ saved = <<>>
  /\ pathExists = TRUE
  /\ convertedExists = FALSE
  /\ notified = "no"
  /\ consumed = <<>>
  /\ failedAt = "none"
  /\ result = "none"

\* The step `step` of consume_file raises: the task fails.
CF_Raise(step) ==
  /\ failedAt' = step
  /\ result' = "raised"
  /\ cfPc' = "done"

\* Lines 98-109: barcode handling is entered when it is enabled and the file
\* type is supported; otherwise the file goes on to the Consumer.
CF_Begin ==
  /\ cfPc = "start"
  /\ cfPc' = IF task.CONSUMER_ENABLE_BARCODES /\ supported_file_type(task.mime_type)
             THEN "convert" ELSE "consume"
  /\ UNCHANGED besideConsume
  /\ UNCHANGED <<task, file_to_process, separators, document_list, n, saved,
                 pathExists, convertedExists, notified, consumed, failedAt, result>>

\* Lines 111-117: a TIFF is converted to a PDF, which is the file to process.
CF_Convert ==
  /\ cfPc = "convert"
  /\ IF task.mime_type = MimeTiff
     THEN file_to_process' = "converted" /\ convertedExists' = TRUE
     ELSE file_to_process' = "path" /\ UNCHANGED convertedExists
  /\ cfPc' = "scan"
  /\ UNCHANGED besideConsume
  /\ UNCHANGED <<task, separators, document_list, n, saved, pathExists, notified,
                 consumed, failedAt, result>>

\* Lines 119-127: scan for separators; when there are any, separate the pages;
\* with a non-empty document_list go on to save, otherwise to the Consumer.
CF_Scan ==
  /\ cfPc = "scan"
  /\ separators' = scan_file_for_separating_barcodes(task)
  /\ document_list' = IF separators' # <<>>
                      THEN separate_pages(task, separators') ELSE <<>>
  /\ cfPc' = IF document_list' # <<>> THEN "save" ELSE "consume"
  /\ UNCHANGED besideConsume
  /\ UNCHANGED <<task, file_to_process, n, saved, pathExists, convertedExists,
                 notified, consumed, failedAt, result>>

\* CF_ScanEmpty without the test of line 127: the loop over the empty list
\* writes nothing and the deletions follow.
CF_ScanEmpty_NoTest ==
  /\ cfPc = "scan"
  /\ scan_file_for_separating_barcodes(task) # <<>>
  /\ separators' = scan_file_for_separating_barcodes(task)
  /\ document_list' = <<>>
  /\ cfPc' = IF task.mime_type = MimeTiff THEN "unlink_converted" ELSE "unlink"
  /\ UNCHANGED besideConsume
  /\ UNCHANGED <<task, file_to_process, n, saved, pathExists, convertedExists,
                 notified, consumed, failedAt, result>>

\* Lines 119-127 when separators were detected and barcodes.separate_pages hands
\* back an empty list: the test of line 127 fails, nothing is written or
\* deleted and the file goes on to the Consumer.
CF_ScanEmpty ==
  /\ cfPc = "scan"
  /\ scan_file_for_separating_barcodes(task) # <<>>
  /\ separators' = scan_file_for_separating_barcodes(task)
  /\ document_list' = <<>>
  /\ cfPc' = IF document_list' # <<>> THEN "save" ELSE "consume"
  /\ UNCHANGED besideConsume
  /\ UNCHANGED <<task, file_to_process, n, saved, pathExists, convertedExists,
                 notified, consumed, failedAt, result>>

\* CF_Save whose loop leaves out the last sub-document.
CF_Save_SkipsLast ==
  /\ cfPc = "save"
  /\ \/ /\ saved' = IF n + 1 < Len(document_list)
                    THEN Append(saved,
                                [name |-> newname(n, task.override_filename),
                                 pages |-> document_list[n + 1]])
                    ELSE saved
        /\ n' = n + 1
        /\ cfPc' = IF n + 1 < Len(document_list) THEN "save"
                   ELSE IF task.mime_type = MimeTiff THEN "unlink_converted"
                   ELSE "unlink"
        /\ UNCHANGED <<failedAt, result>>
     \/ /\ CF_Raise("save")
        /\ UNCHANGED <<saved, n>>
  /\ UNCHANGED besideConsume
  /\ UNCHANGED <<task, file_to_process, separators, document_list, pathExists,
                 convertedExists, notified, consumed>>

\* CF_Save that passes over a failed write: the loop goes on to the next
\* sub-document and to the deletions.
CF_Save_PassesFailure ==
  /\ cfPc = "save"
  /\ \/ saved' = Append(saved,
                        [name |-> newname(n, task.override_filename),
                         pages |-> document_list[n + 1]])
     \/ UNCHANGED saved
  /\ n' = n + 1
  /\ cfPc' = IF n + 1 < Len(document_list) THEN "save"
             ELSE IF task.mime_type = MimeTiff THEN "unlink_converted"
             ELSE "unlink"
  /\ UNCHANGED besideConsume
  /\ UNCHANGED <<task, file_to_process, separators, document_list, pathExists,
                 convertedExists, notified, consumed, failedAt, result>>

\* Lines 128-139: one turn of the loop: barcodes.save_to_dir writes sub-document n
\* into path.parent, or raises. After the last one the deletions follow.
CF_Save ==
  /\ cfPc = "save"
  /\ \/ /\ saved' = Append(saved,
                          [name |-> newname(n, task.override_filename),
                           pages |-> document_list[n + 1]])
        /\ n' = n + 1
        /\ cfPc' = IF n + 1 < Len(document_list) THEN "save"
                   ELSE IF task.mime_type = MimeTiff THEN "unlink_converted"
                   ELSE "unlink"
        /\ UNCHANGED <<failedAt, result>>
     \/ /\ CF_Raise("save")
        /\ UNCHANGED <<saved, n>>
  /\ UNCHANGED besideConsume
  /\ UNCHANGED <<task, file_to_process, separators, document_list, pathExists,
                 convertedExists, notified, consumed>>

\* Lines 143-146: os.unlink(file_to_process) for a TIFF; it may raise.
CF_UnlinkConverted ==
  /\ cfPc = "unlink_converted"
  /\ \/ /\ convertedExists' = FALSE
        /\ cfPc' = "unlink"
        /\ UNCHANGED <<failedAt, result>>
     \/ /\ CF_Raise("unlink_converted")
        /\ UNCHANGED convertedExists
  /\ UNCHANGED besideConsume
  /\ UNCHANGED <<task, file_to_process, separators, document_list, n, saved,
                 pathExists, notified, consumed>>

\* Lines 148-149: os.unlink(path); it may raise.
CF_Unlink ==
  /\ cfPc = "unlink"
  /\ \/ /\ pathExists' = FALSE
        /\ cfPc' = "notify"
        /\ UNCHANGED <<failedAt, result>>
     \/ /\ CF_Raise("unlink")
        /\ UNCHANGED pathExists
  /\ UNCHANGED besideConsume
  /\ UNCHANGED <<task, file_to_process, separators, document_list, n, saved,
                 convertedExists, notified, consumed>>

\* CF_Notify without the return of line 173: the run goes on to the Consumer.
CF_Notify_FallsThrough ==
  /\ cfPc = "notify"
  /\ \/ /\ notified' \in {"sent", "OSError"}
        /\ cfPc' = "consume"
        /\ UNCHANGED <<failedAt, result>>
     \/ /\ notified' = "Exception"
        /\ CF_Raise("notify")
  /\ UNCHANGED besideConsume
  /\ UNCHANGED <<task, file_to_process, separators, document_list, n, saved,
                 pathExists, convertedExists, consumed>>

\* Lines 153-173: group_send of the final status; an OSError is logged, any other
\* exception leaves the task; otherwise the task returns.
CF_Notify ==
  /\ cfPc = "notify"
  /\ \/ /\ notified' \in {"sent", "OSError"}
        /\ result' = "File successfully split"
        /\ cfPc' = "done"
        /\ UNCHANGED failedAt
     \/ /\ notified' = "Exception"
        /\ CF_Raise("notify")
  /\ UNCHANGED besideConsume
  /\ UNCHANGED <<task, file_to_process, separators, document_list, n, saved,
                 pathExists, convertedExists, consumed>>

\* Lines 176-193: Consumer().try_consume_file(path, ...): a document, or None
\* (ConsumerError is raised), or it raises itself.
CF_Consume ==
  /\ cfPc = "consume"
  /\ consumed' = Append(consumed, "path")
  /\ \/ /\ result' = "Success. New document id created"
        /\ cfPc' = "done"
        /\ UNCHANGED failedAt
     \/ CF_Raise("consume")
  /\ UNCHANGED besideConsume
  /\ UNCHANGED <<task, file_to_process, separators, document_list, n, saved,
                 pathExists, convertedExists, notified>>

ConsumeNext ==
  \/ CF_Begin
  \/ CF_Convert
  \/ CF_Scan
  \/ CF_Save
  \/ CF_UnlinkConverted
  \/ CF_Unlink
  \/ CF_Notify
  \/ CF_Consume

\* ------------------------------------------------------------- sanity_check

\* The levels of the messages of the sanity checker.
Levels == {"info", "warning", "error"}

\* sanity_checker.check_sanity(): any list of messages.
check_sanity ==
  UNION {[1..k -> Levels] : k \in 0..MaxMessages}

\* SanityCheckMessages.has_error, has_warning: a message of that level was added.
has_error(msgs) == \E i \in 1..Len(msgs) : msgs[i] = "error"
has_warning(msgs) == \E i \in 1..Len(msgs) : msgs[i] = "warning"

InitSanity ==
  /\ scPc = "check"
  /\ messages = <<>>
  /\ scLogged = <<>>
  /\ scResult = "none"

\* No run of sanity_check.
NoSanity ==
  /\ scPc = "idle"
  /\ messages = <<>>
  /\ scLogged = <<>>
  /\ scResult = "none"

\* Line 198: messages = sanity_checker.check_sanity()
SC_Check ==
  /\ scPc = "check"
  /\ messages' \in check_sanity
  /\ scPc' = "log"
  /\ UNCHANGED <<scLogged, scResult>>
  /\ UNCHANGED besideSanity

\* Line 200: messages.log_messages()
SC_Log ==
  /\ scPc = "log"
  /\ scLogged' = Append(scLogged, messages)
  /\ scPc' = "decide"
  /\ UNCHANGED <<messages, scResult>>
  /\ UNCHANGED besideSanity

\* SC_Decide that tests for warnings before errors.
SC_Decide_WarningFirst ==
  /\ scPc = "decide"
  /\ scResult' = IF has_warning(messages)
                 THEN "Sanity check exited with warnings. See log."
                 ELSE IF has_error(messages)
                 THEN "SanityCheckFailedException"
                 ELSE IF Len(messages) > 0
                 THEN "Sanity check exited with infos. See log."
                 ELSE "No issues detected."
  /\ scPc' = "done"
  /\ UNCHANGED <<messages, scLogged>>
  /\ UNCHANGED besideSanity

\* Lines 202-209: raise on an error, else report warnings, else infos, else
\* that nothing was found.
SC_Decide ==
  /\ scPc = "decide"
  /\ scResult' = IF has_error(messages)
                 THEN "SanityCheckFailedException"
                 ELSE IF has_warning(messages)
                 THEN "Sanity check exited with warnings. See log."
                 ELSE IF Len(messages) > 0
                 THEN "Sanity check exited with infos. See log."
                 ELSE "No issues detected."
  /\ scPc' = "done"
  /\ UNCHANGED <<messages, scLogged>>
  /\ UNCHANGED besideSanity

SanityNext ==
  \/ SC_Check
  \/ SC_Log
  \/ SC_Decide

\* ---------------------------------------------------------- train_classifier

\* The kinds of entity that can be matched automatically, in the order of the
\* tests of lines 59-64.
Kinds == {"Tag", "DocumentType", "Correspondent", "StoragePath"}

InitTrain ==
  /\ auto \in [Kinds -> BOOLEAN]
  /\ modelFile \in {"absent", "old"}
  /\ tcPc = "test"
  /\ classifier = "unset"
  /\ changed = "unset"
  /\ loads = 0
  /\ trains = 0
  /\ saves = 0
  /\ tcFailed = "none"
  /\ tcLogged = "none"
  /\ tcOutcome = "none"

\* No run of train_classifier.
NoTrain ==
  /\ auto = [k \in Kinds |-> FALSE]
  /\ modelFile = "absent"
  /\ tcPc = "idle"
  /\ classifier = "unset"
  /\ changed = "unset"
  /\ loads = 0
  /\ trains = 0
  /\ saves = 0
  /\ tcFailed = "none"
  /\ tcLogged = "none"
  /\ tcOutcome = "none"

\* TC_Test as it was before storage paths were matched: three kinds are tested.
TC_Test_ThreeKinds ==
  /\ tcPc = "test"
  /\ IF ~auto["Tag"] /\ ~auto["DocumentType"] /\ ~auto["Correspondent"]
     THEN tcPc' = "done" /\ tcOutcome' = "returned"
     ELSE tcPc' = "load" /\ UNCHANGED tcOutcome
  /\ UNCHANGED <<auto, modelFile, classifier, changed, loads, trains, saves,
                 tcFailed, tcLogged>>
  /\ UNCHANGED besideTrain

\* Lines 59-66: with no automatically matched Tag, DocumentType, Correspondent
\* or StoragePath the task returns.
TC_Test ==
  /\ tcPc = "test"
  /\ IF /\ ~auto["Tag"]
        /\ ~auto["DocumentType"]
        /\ ~auto["Correspondent"]
        /\ ~auto["StoragePath"]
     THEN tcPc' = "done" /\ tcOutcome' = "returned"
     ELSE tcPc' = "load" /\ UNCHANGED tcOutcome
  /\ UNCHANGED <<auto, modelFile, classifier, changed, loads, trains, saves,
                 tcFailed, tcLogged>>
  /\ UNCHANGED besideTrain

\* Lines 68-71: load_classifier() gives the persisted model, or None and a
\* DocumentClassifier() is constructed.
TC_Load ==
  /\ tcPc = "load"
  /\ loads' = loads + 1
  /\ classifier' = IF modelFile = "absent" THEN "untrained" ELSE "loaded"
  /\ tcPc' = "train"
  /\ UNCHANGED <<auto, modelFile, changed, trains, saves, tcFailed, tcLogged,
                 tcOutcome>>
  /\ UNCHANGED besideTrain

\* TC_Train without the handler of line 82: an exception of train() leaves the task.
TC_Train_Propagates ==
  /\ tcPc = "train"
  /\ trains' = trains + 1
  /\ \/ /\ changed' = "yes"
        /\ tcLogged' = "info"
        /\ tcPc' = "save"
        /\ UNCHANGED <<tcFailed, tcOutcome>>
     \/ /\ changed' = "no"
        /\ tcLogged' = "debug"
        /\ tcPc' = "done"
        /\ tcOutcome' = "returned"
        /\ UNCHANGED tcFailed
     \/ /\ tcFailed' = "train"
        /\ tcPc' = "done"
        /\ tcOutcome' = "raised"
        /\ UNCHANGED <<changed, tcLogged>>
  /\ UNCHANGED <<auto, modelFile, classifier, loads, saves>>
  /\ UNCHANGED besideTrain

\* Lines 73-83: classifier.train() reports a change (the saving is announced,
\* line 75), or none (line 80, the task returns), or raises: the handler of
\* line 82 logs a warning and the task returns.
TC_Train ==
  /\ tcPc = "train"
  /\ trains' = trains + 1
  /\ \/ /\ changed' = "yes"
        /\ tcLogged' = "info"
        /\ tcPc' = "save"
        /\ UNCHANGED <<tcFailed, tcOutcome>>
     \/ /\ changed' = "no"
        /\ tcLogged' = "debug"
        /\ tcPc' = "done"
        /\ tcOutcome' = "returned"
        /\ UNCHANGED tcFailed
     \/ /\ tcFailed' = "train"
        /\ tcLogged' = "warning"
        /\ tcPc' = "done"
        /\ tcOutcome' = "returned"
        /\ UNCHANGED changed
  /\ UNCHANGED <<auto, modelFile, classifier, loads, saves>>
  /\ UNCHANGED besideTrain

\* Lines 78-83: classifier.save() persists the model, or raises: the handler of
\* line 82 logs a warning. The task returns.
TC_Save ==
  /\ tcPc = "save"
  /\ \/ /\ modelFile' = "new"
        /\ saves' = saves + 1
        /\ UNCHANGED <<tcFailed, tcLogged>>
     \/ /\ tcFailed' = "save"
        /\ tcLogged' = "warning"
        /\ UNCHANGED <<modelFile, saves>>
  /\ tcPc' = "done"
  /\ tcOutcome' = "returned"
  /\ UNCHANGED <<auto, classifier, changed, loads, trains>>
  /\ UNCHANGED besideTrain

TrainNext ==
  \/ TC_Test
  \/ TC_Load
  \/ TC_Train
  \/ TC_Save

\* ------------------------- index_optimize, index_reindex, bulk_update_documents

\* The holder of the index writer session when it is the index task.
IndexTask == MaxRuns + 1

\* Document.objects.filter(id__in=ids), evaluated: the instances of the stored
\* records with these ids, by id.
Instances(ids) ==
  LET pks == Ascending(ids \cap Docs)
  IN [i \in 1..Len(pks) |-> [pk |-> pks[i], rec |-> db[pks[i]]]]

\* No write is buffered.
EmptyBuffer == [d \in Docs |-> None]

\* No run of an index task; InitIndexTask is the same state, from which
\* IT_Start starts one.
NoIndexTask ==
  /\ itKind = "none"
  /\ itPc = "idle"
  /\ document_ids = {}
  /\ documents = <<>>
  /\ itN = 0
  /\ buffer = EmptyBuffer
  /\ events = <<>>
  /\ itFailed = "none"
  /\ itOutcome = "none"

\* The archive variables an index task never touches.
archiveRest == <<db, fs, thumbs, rowLock, mediaLock, pc, docId, document, checksum,
                 txn, failedIn, raising, cleanups, logged, outcome, before,
                 atUpdate, nruns, solo, lastRun, retryOf, idem, committed, indexed>>

\* Lines 41, 47, 213: the task queue starts index_optimize(), index_reindex()
\* or bulk_update_documents(document_ids); lines 48 and 214 build a queryset
\* and do not evaluate it.
IT_Start(kind, ids) ==
  /\ itPc = "idle"
  /\ itKind' = kind
  /\ document_ids' = ids
  /\ itPc' = CASE kind = "optimize" -> "open"
              [] kind = "reindex" -> "recreate"
              [] OTHER -> "evaluate"
  /\ UNCHANGED <<documents, itN, buffer, events, itFailed, itOutcome>>
  /\ UNCHANGED <<archiveRest, index, ixWriter>>
  /\ UNCHANGED besideIndexTask

\* Line 50: index.open_index(recreate=True): the index is created anew, empty.
IT_Recreate ==
  /\ itPc = "recreate"
  /\ index' = [d \in Docs |-> None]
  /\ itPc' = "open"
  /\ UNCHANGED <<itKind, document_ids, documents, itN, buffer, events, itFailed,
                 itOutcome>>
  /\ UNCHANGED <<archiveRest, ixWriter>>
  /\ UNCHANGED besideIndexTask

\* Lines 218 and 53: the first iteration evaluates the queryset; later
\* iterations of the same queryset use the instances it has cached.
IT_Evaluate ==
  /\ itPc = "evaluate"
  /\ documents' = Instances(IF itKind = "bulk" THEN document_ids ELSE Docs)
  /\ itN' = 0
  /\ itPc' = IF itKind = "bulk"
             THEN (IF documents' = <<>> THEN "open" ELSE "post_save")
             ELSE (IF documents' = <<>> THEN "release" ELSE "write")
  /\ UNCHANGED <<itKind, document_ids, buffer, events, itFailed, itOutcome>>
  /\ UNCHANGED <<archiveRest, index, ixWriter>>
  /\ UNCHANGED besideIndexTask

\* IT_PostSave whose loop leaves out the last document.
IT_PostSave_SkipsLast ==
  /\ itPc = "post_save"
  /\ events' = IF itN + 1 < Len(documents)
               THEN Append(events, <<"post_save", documents[itN + 1].pk>>)
               ELSE events
  /\ IF itN + 1 < Len(documents)
     THEN itN' = itN + 1 /\ UNCHANGED itPc
     ELSE itN' = 0 /\ itPc' = "open"
  /\ UNCHANGED <<itFailed, itOutcome>>
  /\ UNCHANGED <<itKind, document_ids, documents, buffer>>
  /\ UNCHANGED <<archiveRest, index, ixWriter>>
  /\ UNCHANGED besideIndexTask

\* Lines 218-219: one turn of the first loop: post_save.send for the document;
\* an exception of a receiver leaves the task.
IT_PostSave ==
  /\ itPc = "post_save"
  /\ \/ /\ events' = Append(events, <<"post_save", documents[itN + 1].pk>>)
        /\ IF itN + 1 < Len(documents)
           THEN itN' = itN + 1 /\ UNCHANGED itPc
           ELSE itN' = 0 /\ itPc' = "open"
        /\ UNCHANGED <<itFailed, itOutcome>>
     \/ /\ itFailed' = "post_save"
        /\ itOutcome' = "raised"
        /\ itPc' = "done"
        /\ UNCHANGED <<events, itN>>
  /\ UNCHANGED <<itKind, document_ids, documents, buffer>>
  /\ UNCHANGED <<archiveRest, index, ixWriter>>
  /\ UNCHANGED besideIndexTask

\* Lines 43, 52, 221: AsyncWriter(ix): the exclusive writer session is acquired.
IT_Open ==
  /\ itPc = "open"
  /\ ixWriter = None
  /\ ixWriter' = IndexTask
  /\ events' = Append(events, <<"open">>)
  /\ itPc' = CASE itKind = "optimize" -> "commit"
              [] itKind = "reindex" -> "evaluate"
              [] OTHER -> IF documents = <<>> THEN "release" ELSE "write"
  /\ UNCHANGED <<itKind, document_ids, documents, itN, buffer, itFailed, itOutcome>>
  /\ UNCHANGED <<archiveRest, index>>
  /\ UNCHANGED besideIndexTask

\* Line 44: writer.commit(optimize=True) ends the session of index_optimize.
IT_Commit ==
  /\ itPc = "commit"
  /\ ixWriter' = None
  /\ events' = Append(events, <<"release">>)
  /\ itOutcome' = "returned"
  /\ itPc' = "done"
  /\ UNCHANGED <<itKind, document_ids, documents, itN, buffer, itFailed>>
  /\ UNCHANGED <<archiveRest, index>>
  /\ UNCHANGED besideIndexTask

\* IT_Write with a writer that is opened and committed by hand, not by a with
\* block: an exception of index.update_document leaves the task with the
\* session open.
IT_Write_NoWith ==
  /\ itPc = "write"
  /\ \/ /\ buffer' = [buffer EXCEPT ![documents[itN + 1].pk] =
                                       update_document(documents[itN + 1].rec)]
        /\ events' = Append(events, <<"write", documents[itN + 1].pk>>)
        /\ itN' = itN + 1
        /\ itPc' = IF itN + 1 < Len(documents) THEN "write" ELSE "release"
        /\ UNCHANGED <<itFailed, itOutcome>>
     \/ /\ itFailed' = "write"
        /\ itOutcome' = "raised"
        /\ itPc' = "done"
        /\ UNCHANGED <<buffer, events, itN>>
  /\ UNCHANGED <<itKind, document_ids, documents>>
  /\ UNCHANGED <<archiveRest, index, ixWriter>>
  /\ UNCHANGED besideIndexTask

\* Lines 53-54 and 222-223: one turn of the loop inside the with block:
\* index.update_document(writer, document) buffers the entry, or raises and
\* the with block is left.
IT_Write ==
  /\ itPc = "write"
  /\ \/ /\ buffer' = [buffer EXCEPT ![documents[itN + 1].pk] =
                                       update_document(documents[itN + 1].rec)]
        /\ events' = Append(events, <<"write", documents[itN + 1].pk>>)
        /\ itN' = itN + 1
        /\ itPc' = IF itN + 1 < Len(documents) THEN "write" ELSE "release"
        /\ UNCHANGED itFailed
     \/ /\ itFailed' = "write"
        /\ itPc' = "release"
        /\ UNCHANGED <<buffer, events, itN>>
  /\ UNCHANGED <<itKind, document_ids, documents, itOutcome>>
  /\ UNCHANGED <<archiveRest, index, ixWriter>>
  /\ UNCHANGED besideIndexTask

\* Lines 52 and 221, leaving the with block: the buffered writes are committed
\* when the body ended normally and dropped when it raised; the session is
\* released in both cases and the task returns, or the exception leaves it.
IT_Release ==
  /\ itPc = "release"
  /\ ixWriter' = None
  /\ events' = Append(events, <<"release">>)
  /\ IF itFailed = "none"
     THEN /\ index' = [d \in Docs |-> IF buffer[d] # None THEN buffer[d] ELSE index[d]]
          /\ itOutcome' = "returned"
     ELSE /\ UNCHANGED index
          /\ itOutcome' = "raised"
  /\ buffer' = EmptyBuffer
  /\ itPc' = "done"
  /\ UNCHANGED <<itKind, document_ids, documents, itN, itFailed>>
  /\ UNCHANGED archiveRest
  /\ UNCHANGED besideIndexTask

\* --------------------------------------------------------- the specifications

vars == <<archiveVars, consumeVars, sanityVars, trainVars, indexTaskVars>>

Init == InitArchive /\ NoConsume /\ NoSanity /\ NoTrain /\ NoIndexTask

Next ==
  \E p \in Procs :
    \/ \E d \in Docs \cup {MissingDoc} : Start(p, d)
    \/ Resolve(p)
    \/ Parse(p)
    \/ GetThumbnail(p)
    \/ Checksum(p)
    \/ Update(p)
    \/ Lock(p)
    \/ Mkdir(p)
    \/ MoveArchive(p)
    \/ MoveThumb(p)
    \/ Unlock(p)
    \/ EndAtomic(p)
    \/ IndexOpen(p)
    \/ IndexUpdate(p)
    \/ Except(p)
    \/ Finally(p)

\* Runs of update_document_archive_file, overlapping in any way.
Spec == Init /\ [][Next]_vars

\* The steps of run p after its start.
RunStep(p) ==
  \/ Resolve(p)
  \/ Parse(p)
  \/ GetThumbnail(p)
  \/ Checksum(p)
  \/ Update(p)
  \/ Lock(p)
  \/ Mkdir(p)
  \/ MoveArchive(p)
  \/ MoveThumb(p)
  \/ Unlock(p)
  \/ EndAtomic(p)
  \/ IndexOpen(p)
  \/ IndexUpdate(p)
  \/ Except(p)
  \/ Finally(p)

\* A worker goes on executing the task it has started: a step that can be
\* taken is taken, a step that waits for a lock is taken once the lock stays free.
Fairness == \A p \in Procs : WF_vars(RunStep(p))

\* Runs of update_document_archive_file on workers that do not stop.
SpecFair == Init /\ [][Next]_vars /\ Fairness

\* One run of consume_file on any input.
ConsumeInit ==
  InitArchive /\ InitConsume /\ NoSanity /\ NoTrain /\ NoIndexTask

SpecConsume == ConsumeInit /\ [][ConsumeNext]_vars

\* One run of consume_file with a splitter that may produce no sub-document
\* although separators were detected.
ConsumeEmptyNext ==
  \/ CF_Begin
  \/ CF_Convert
  \/ CF_Scan
  \/ CF_ScanEmpty
  \/ CF_Save
  \/ CF_UnlinkConverted
  \/ CF_Unlink
  \/ CF_Notify
  \/ CF_Consume

ConsumeEmptyInit ==
  InitArchive /\ InitConsume /\ NoSanity /\ NoTrain /\ NoIndexTask

SpecConsumeEmpty == ConsumeEmptyInit /\ [][ConsumeEmptyNext]_vars

\* One run of sanity_check on any report of the sanity checker.
SanityInit ==
  InitArchive /\ NoConsume /\ InitSanity /\ NoTrain /\ NoIndexTask

SpecSanity == SanityInit /\ [][SanityNext]_vars

\* One run of train_classifier on any set of matching settings.
TrainInit ==
  InitArchive /\ NoConsume /\ NoSanity /\ InitTrain /\ NoIndexTask

SpecTrain == TrainInit /\ [][TrainNext]_vars

\* The steps of the index task after its start.
IndexTaskStep ==
  \/ IT_Recreate
  \/ IT_Evaluate
  \/ IT_PostSave
  \/ IT_Open
  \/ IT_Commit
  \/ IT_Write
  \/ IT_Release

\* One run of bulk_update_documents on any set of ids, nothing else running.
BulkNext ==
  \/ \E ids \in SUBSET (Docs \cup {MissingDoc}) : IT_Start("bulk", ids)
  \/ IT_Evaluate
  \/ IT_PostSave
  \/ IT_Open
  \/ IT_Write
  \/ IT_Release

BulkInit == InitArchive /\ NoConsume /\ NoSanity /\ NoTrain /\ NoIndexTask

SpecBulk == BulkInit /\ [][BulkNext]_vars

\* One index task and one run of update_document_archive_file, overlapping
\* in any way.
IndexNext ==
  \/ IT_Start("optimize", {})
  \/ IT_Start("reindex", {})
  \/ \E ids \in SUBSET (Docs \cup {MissingDoc}) : IT_Start("bulk", ids)
  \/ IT_Recreate
  \/ IT_Evaluate
  \/ IT_PostSave
  \/ IT_Open
  \/ IT_Commit
  \/ IT_Write
  \/ IT_Release
  \/ \E d \in Docs \cup {MissingDoc} : Start(1, d)
  \/ Resolve(1)
  \/ Parse(1)
  \/ GetThumbnail(1)
  \/ Checksum(1)
  \/ Update(1)
  \/ Lock(1)
  \/ Mkdir(1)
  \/ MoveArchive(1)
  \/ MoveThumb(1)
  \/ Unlock(1)
  \/ EndAtomic(1)
  \/ IndexOpen(1)
  \/ IndexUpdate(1)
  \/ Except(1)
  \/ Finally(1)

IndexInit == InitArchive /\ NoConsume /\ NoSanity /\ NoTrain /\ NoIndexTask

\* A worker goes on executing the task it has started; opening the writer
\* waits until the session is free.
IndexFairness == WF_vars(IndexTaskStep) /\ WF_vars(RunStep(1))

SpecIndex == IndexInit /\ [][IndexNext]_vars /\ IndexFairness

\* ------------------------------------------------------------------ claims

\* The file at the archive path of a stored record matches the record: it
\* exists and its hash is the stored archive_checksum.
ArchiveFileMatches(rec) ==
  /\ archive_path(rec) # None
  /\ fs[archive_path(rec)] # None
  /\ md5(fs[archive_path(rec)]) = rec.archive_checksum

\* C1: in every reachable state, for every document, archive_filename is set if
\* and only if a file exists at the document's archive path whose content hash
\* equals the stored archive_checksum.
C1_ArchiveInvariant ==
  \A d \in Docs : (db[d].archive_filename # None) <=> ArchiveFileMatches(db[d])

\* The steps of the atomic unit that touch the Archive Store.
MoveSteps == {"mkdir", "move_archive", "move_thumb"}

\* The archive fields and the content of a record.
Stored(rec) == <<rec.archive_checksum, rec.content, rec.archive_filename>>

\* C2, as stated: when the directory creation or a move failed, the atomic unit
\* ends with the stored archive_checksum, content and archive_filename that the
\* document had when the task started.
C2_RestoresTaskStart ==
  [][\A p \in Procs :
       (pc[p] = "end_atomic" /\ pc'[p] = "except" /\ failedIn[p] \in MoveSteps)
         => Stored(db'[docId[p]]) = Stored(before[p])]_vars

\* C2, amended: when the directory creation or a move failed, the atomic unit
\* ends with the stored archive_checksum, content and archive_filename that the
\* document had when the run issued its update; the update does not survive.
C2_RollbackRestores ==
  [][\A p \in Procs :
       (pc[p] = "end_atomic" /\ pc'[p] # "end_atomic" /\ failedIn[p] \in MoveSteps)
         => /\ pc'[p] = "except"
            /\ Stored(db'[docId[p]]) = Stored(atUpdate[p])]_vars

\* A move of the thumbnail failed after the update was issued, and the atomic
\* unit has ended.
C2_Witness ==
  \E p \in Procs :
    /\ pc[p] = "except"
    /\ failedIn[p] = "move_thumb"
    /\ Stored(db[docId[p]]) = Stored(atUpdate[p])
    /\ Stored(atUpdate[p]) # <<checksum[p], get_text(docId[p], 1),
                               document[p].archive_filename>>

\* C3: the index entry a successful run writes for its document is the
\* projection of the document's stored record: the indexed content is the
\* content just stored.
C3_IndexIsProjection ==
  [][\A p \in Procs :
       (pc[p] = "index_update" /\ pc'[p] = "finally")
         => index'[docId[p]] = update_document(db'[docId[p]])]_vars

\* The steps of parsing, of thumbnail and archive production and of the atomic
\* unit.
CaughtSteps ==
  {"parse", "thumbnail", "checksum", "update", "mkdir", "move_archive", "move_thumb"}

\* C4: a run in which parsing, the thumbnail or archive production or the atomic
\* unit raised logs the exception once and returns normally to the task queue.
C4_NeverRaises ==
  \A p \in Procs :
    (pc[p] = "done" /\ failedIn[p] \in CaughtSteps)
      => (outcome[p] = "returned" /\ logged[p] = 1)

\* A run whose archive move raised has ended.
C4_Witness ==
  \E p \in Procs :
    pc[p] = "done" /\ failedIn[p] = "move_archive" /\ outcome[p] = "returned"

\* Run p has resolved a parser.
HasParser(p) ==
  /\ pc[p] \notin {"idle", "resolve"}
  /\ docId[p] \in Docs
  /\ get_parser_class_for_mime_type(document[p].mime_type) # "NoParser"

\* C5: a run that resolved a parser has called parser.cleanup() exactly once when
\* it has ended, on every exit path, and not before.
C5_CleanupOnce ==
  \A p \in Procs :
    HasParser(p) => cleanups[p] = (IF pc[p] = "done" THEN 1 ELSE 0)

\* A run whose index update raised has ended, after one cleanup.
C5_Witness ==
  \E p \in Procs :
    HasParser(p) /\ pc[p] = "done" /\ failedIn[p] = "index" /\ cleanups[p] = 1

\* C6: a run for a document whose MIME type has no registered parser returns
\* without raising, and no step of it changes the document records, the files of
\* the Archive Store or the Search Index.
C6_NoParserNoEffect ==
  [][\A p \in Procs :
       (pc'[p] # pc[p] /\ docId'[p] \in Docs
        /\ get_parser_class_for_mime_type(db[docId'[p]].mime_type) = "NoParser")
         => /\ UNCHANGED stores
            /\ pc'[p] \in {"resolve", "done"}
            /\ pc'[p] = "done" => outcome'[p] = "returned"]_vars

\* A run for a document without parser has returned.
C6_Witness ==
  \E p \in Procs :
    /\ pc[p] = "done"
    /\ docId[p] \in Docs
    /\ get_parser_class_for_mime_type(db[docId[p]].mime_type) = "NoParser"
    /\ outcome[p] = "returned"

\* Run p is between acquiring and releasing the Archive Store lock.
InLock(p) == pc[p] \in {"mkdir", "move_archive", "move_thumb", "unlock"}

\* C7: no two runs are between acquiring and releasing the Archive Store lock at
\* the same time, and the run that is holds the lock.
C7_MutualExclusion ==
  \A p \in Procs :
    InLock(p) => (mediaLock = p /\ \A q \in Procs \ {p} : ~InLock(q))

\* A run moves its files while a run for another document waits for the lock.
C7_Witness ==
  \E p \in Procs, q \in Procs :
    /\ pc[p] = "move_thumb"
    /\ pc[q] = "lock"
    /\ docId[p] # docId[q]

\* C8: a run that immediately repeats an undisturbed run for the same document,
\* neither with a step that raises, ends in the state the first one ended in:
\* record fields, archive and thumbnail files, index entry.
C8_RetryIdempotent == idem.first = idem.second

\* The detected separators are k >= 1 pages, none the first or the last page of
\* the file and no two of them adjacent.
CleanSeparators ==
  /\ Len(separators) >= 1
  /\ separators[1] # 0
  /\ separators[Len(separators)] # task.pages - 1
  /\ \A i \in 1..(Len(separators) - 1) : separators[i + 1] > separators[i] + 1

\* The pages of the files written into the intake directory, in order.
RECURSIVE PagesOf(_)
PagesOf(files) ==
  IF files = <<>> THEN <<>> ELSE Head(files).pages \o PagesOf(Tail(files))

\* C9: a run in which k >= 1 separators were detected (none leading, trailing or
\* adjacent) and no write failed has written exactly k+1 sub-documents, each
\* non-empty and under its own name, which hold the pages of the file that are
\* no separators, in order; and when the run returns, it returns "File
\* successfully split" and the original file exists no more.
C9_SplitWritesAll ==
  (cfPc = "done" /\ CleanSeparators /\ failedAt # "save")
    => /\ Len(saved) = Len(separators) + 1
       /\ \A i \in 1..Len(saved) : saved[i].pages # <<>>
       /\ \A i \in 1..Len(saved), j \in 1..Len(saved) :
            saved[i].name = saved[j].name => i = j
       /\ PagesOf(saved) = Ascending((0..(task.pages - 1)) \ task.barcodes)
       /\ result # "raised" => (result = "File successfully split" /\ ~pathExists)

\* A TIFF with two separators was split into three sub-documents; the original
\* and the converted file are deleted.
C9_Witness ==
  /\ cfPc = "done"
  /\ task.mime_type = MimeTiff
  /\ CleanSeparators
  /\ Len(separators) = 2
  /\ Len(saved) = 3
  /\ result = "File successfully split"
  /\ ~pathExists
  /\ ~convertedExists

\* The run has split the file: every sub-document of a non-empty list is written.
SplitDone == document_list # <<>> /\ n = Len(document_list)

\* C10, as stated: a run that splits the file returns "File successfully split"
\* and does not invoke the Consumer; a run that does not split invokes the
\* Consumer exactly once, on the original path.
C10_SplitXorConsume ==
  cfPc = "done"
    => IF SplitDone
       THEN result = "File successfully split" /\ consumed = <<>>
       ELSE consumed = <<"path">>

\* C10, amended: a run with a non-empty list of sub-documents never invokes the
\* Consumer, and ends with "File successfully split" or with the exception of a
\* write, a deletion or the notification; a run without one (barcodes disabled,
\* type unsupported, no separator, nothing separated) invokes the Consumer
\* exactly once, on the original path; only a split returns the split outcome.
C10_SplitOrConsume ==
  /\ document_list # <<>> => consumed = <<>>
  /\ result = "File successfully split" => SplitDone
  /\ cfPc = "done"
       => IF document_list # <<>>
          THEN \/ result = "File successfully split"
               \/ /\ result = "raised"
                  /\ failedAt \in {"save", "unlink_converted", "unlink", "notify"}
          ELSE consumed = <<"path">>

\* A run has split its file and returned, the Consumer not invoked.
C10_Witness ==
  /\ cfPc = "done"
  /\ SplitDone
  /\ result = "File successfully split"
  /\ consumed = <<>>

\* C11: when separators are detected and the splitting produces no sub-document,
\* consume_file deletes neither the original file nor the PDF converted from a
\* TIFF: the file is handed to the Consumer or the run is still before that.
C11_EmptySplitKeepsOriginal ==
  (separators # <<>> /\ document_list = <<>>) =>
    /\ pathExists
    /\ saved = <<>>
    /\ cfPc \in {"consume", "done"}
    /\ file_to_process = "converted" => convertedExists

C11_Witness ==
  /\ cfPc = "done"
  /\ separators # <<>>
  /\ document_list = <<>>
  /\ pathExists
  /\ consumed = <<"path">>

\* C12: after a split whose deletions are done, a failure of any kind of the
\* publication of the notification is not raised: the task ends with the
\* result "File successfully split".
C12_PublishFailureNotRaised ==
  notified \in {"OSError", "Exception"} =>
    /\ cfPc = "done"
    /\ failedAt = "none"
    /\ result = "File successfully split"

\* Every sub-document of the list has been written into the intake directory.
AllWritten == document_list # <<>> /\ Len(saved) = Len(document_list)

\* C19: the original file, and the PDF converted from a TIFF, are deleted only
\* when every sub-document has been written; a run in which a write of a
\* sub-document failed ends with the original (and the converted PDF) in place.
C19_DeleteAfterAllWritten ==
  /\ ~pathExists => AllWritten
  /\ (file_to_process = "converted" /\ ~convertedExists) => AllWritten
  /\ (cfPc = "done" /\ failedAt = "save") =>
       /\ pathExists
       /\ file_to_process = "converted" => convertedExists
       /\ result = "raised"

C19_Witness ==
  /\ cfPc = "done"
  /\ failedAt = "save"
  /\ saved # <<>>
  /\ Len(saved) < Len(document_list)
  /\ file_to_process = "converted"
  /\ pathExists /\ convertedExists

\* The steps before the index step: parsing, the thumbnail, the atomic unit.
BeforeIndexSteps ==
  {"parse", "thumbnail", "checksum", "update", "mkdir", "move_archive", "move_thumb"}

\* C18: a run of update_document_archive_file writes the index entry only after
\* its atomic unit has committed, and at most once; a run in which parsing
\* failed or the atomic unit rolled back writes no index entry.
C18_IndexAfterCommit ==
  \A p \in Procs :
    /\ pc[p] \in {"index_open", "index_update"} => committed[p]
    /\ indexed[p] > 0 => (committed[p] /\ indexed[p] = 1)
    /\ failedIn[p] \in BeforeIndexSteps => (indexed[p] = 0 /\ ~committed[p])

C18_Witness ==
  \E p, q \in Procs :
    /\ pc[p] = "done" /\ failedIn[p] = "move_thumb"
    /\ ~committed[p] /\ indexed[p] = 0
    /\ pc[q] = "done" /\ committed[q] /\ indexed[q] = 1

\* C20: under fair scheduling every started run of update_document_archive_file
\* ends; a run that has ended holds neither the Archive Store lock nor a row
\* lock nor the index writer, whatever step failed in it.
C20_AllTerminate ==
  /\ \A p \in Procs : (pc[p] # "idle") ~> (pc[p] = "done")
  /\ [](\A p \in Procs :
          pc[p] = "done" =>
            /\ mediaLock # p
            /\ ixWriter # p
            /\ \A d \in Docs : rowLock[d] # p)

C20_Witness ==
  \E p, q \in Procs :
    /\ pc[p] = "lock" /\ rowLock[docId[p]] = p
    /\ mediaLock = q /\ rowLock[docId[q]] = q
    /\ pc[q] = "unlock" /\ raising[q]

\* The levels that occur in a list of messages.
LevelsOf(msgs) == {msgs[i] : i \in 1..Len(msgs)}

\* C13: sanity_check ends by the precedence error > warning > info > clean: it
\* raises SanityCheckFailedException when any message is an error, whatever
\* else is there; else returns the warnings string when any is a warning; else
\* the infos string when there is any message; else "No issues detected.". The
\* messages are logged before the outcome in every case.
C13_SanityPrecedence ==
  /\ scResult # "none" => scLogged = <<messages>>
  /\ scPc = "done" =>
       /\ scResult = "SanityCheckFailedException" <=> "error" \in LevelsOf(messages)
       /\ scResult = "Sanity check exited with warnings. See log." <=>
            ("warning" \in LevelsOf(messages) /\ "error" \notin LevelsOf(messages))
       /\ scResult = "Sanity check exited with infos. See log." <=>
            LevelsOf(messages) = {"info"}
       /\ scResult = "No issues detected." <=> messages = <<>>

C13_Witness ==
  /\ scPc = "done"
  /\ LevelsOf(messages) = Levels
  /\ scLogged = <<messages>>
  /\ scResult = "SanityCheckFailedException"

\* Some entity of some kind is matched automatically.
AnyAuto == \E k \in Kinds : auto[k]

\* C14: with no automatically matched Tag, DocumentType, Correspondent or
\* StoragePath, train_classifier returns without loading, training or saving;
\* with one of any kind it loads (or constructs) a classifier and trains it.
C14_TrainOnlyWhenUsed ==
  /\ ~AnyAuto =>
       /\ loads = 0 /\ trains = 0 /\ saves = 0
       /\ modelFile # "new"
       /\ tcPc \in {"test", "done"}
       /\ tcPc = "done" => tcOutcome = "returned"
  /\ (AnyAuto /\ tcPc = "done") =>
       /\ loads = 1 /\ trains = 1
       /\ classifier # "unset"

C14_Witness ==
  /\ tcPc = "done"
  /\ auto = [k \in Kinds |-> k = "StoragePath"]
  /\ loads = 1 /\ trains = 1

\* C15: train_classifier never fails: an exception of train() or of save() is
\* caught and logged as a warning and the task returns; the model is saved,
\* once, only in a run in which train() reported a change and nothing raised.
C15_TrainNeverFails ==
  /\ tcOutcome # "raised"
  /\ tcPc = "done" => tcOutcome = "returned"
  /\ tcFailed # "none" => (tcLogged = "warning" /\ saves = 0 /\ modelFile # "new")
  /\ (saves > 0 \/ modelFile = "new") =>
       (saves = 1 /\ changed = "yes" /\ tcFailed = "none")

C15_Witness ==
  /\ tcPc = "done"
  /\ tcFailed = "save"
  /\ changed = "yes"
  /\ tcLogged = "warning"
  /\ tcOutcome = "returned"
  /\ modelFile = "old"

\* The documents bulk_update_documents selects: the given ids that have a record.
Selected == document_ids \cap Docs

\* The positions in events of the events of one kind.
Positions(kind) == {j \in 1..Len(events) : events[j][1] = kind}

\* C16: bulk_update_documents has sent the notification for every selected
\* document before its first index write, every write is inside the one writer
\* session of the run, and a run that ends without an exception has notified
\* and written exactly the selected documents, each once, and the index holds
\* the written entries.
C16_NotifyThenIndex ==
  /\ \A j \in Positions("write") :
       /\ \A d \in Selected : \E i \in 1..(j - 1) : events[i] = <<"post_save", d>>
       /\ \E i \in 1..(j - 1) : events[i] = <<"open">>
       /\ \A i \in 1..(j - 1) : events[i] # <<"release">>
  /\ Cardinality(Positions("open")) <= 1
  /\ (itPc = "done" /\ itFailed = "none") =>
       /\ {events[j][2] : j \in Positions("post_save")} = Selected
       /\ {events[j][2] : j \in Positions("write")} = Selected
       /\ Cardinality(Positions("post_save")) = Cardinality(Selected)
       /\ Cardinality(Positions("write")) = Cardinality(Selected)
       /\ Cardinality(Positions("open")) = 1
       /\ events[Len(events)] = <<"release">>
       /\ \A d \in Selected : index[d] = update_document(db[d])

C16_Witness ==
  /\ itPc = "done"
  /\ itFailed = "none"
  /\ document_ids = {1, 2, 3}
  /\ events = << <<"post_save", 1>>, <<"post_save", 2>>, <<"post_save", 3>>,
                 <<"open">>, <<"write", 1>>, <<"write", 2>>, <<"write", 3>>,
                 <<"release">> >>

\* The index task is inside its writer session.
InSession ==
  \/ itPc \in {"commit", "write", "release"}
  \/ itPc = "evaluate" /\ itKind = "reindex"

\* C17: the index writer session is held only by a task that is inside its
\* session, never by a task that has returned or failed, and a session that is
\* held is released: index_optimize, index_reindex, bulk_update_documents and
\* the index step of update_document_archive_file release it on every path.
C17_WriterReleased ==
  /\ [](/\ ixWriter = IndexTask => InSession
        /\ ixWriter = 1 => pc[1] = "index_update"
        /\ ixWriter \in {None, 1, IndexTask})
  /\ (ixWriter # None) ~> (ixWriter = None)

C17_Witness ==
  /\ itPc = "done"
  /\ itFailed = "write"
  /\ itOutcome = "raised"
  /\ ixWriter = 1

====
